---- MODULE Spec2Model ----
(***************************************************************************)
(* Model of averell: the PLSDO reader (readers/plsdo.py), the granularity  *)
(* reducers (utils.py) and the orchestrator get_corpora (core.py).         *)
(*                                                                         *)
(* Python strings that the code takes apart (metrical attributes, word     *)
(* texts, line numbers) are sequences of one-character strings.  Python    *)
(* dicts are functions with a string domain, so a missing key is a key     *)
(* outside DOMAIN.  A call that can raise yields Ok(v) or Raise(e).        *)
(***************************************************************************)
EXTENDS Integers, Sequences, FiniteSets, TLC

VARIABLES
    \* get_features (readers/plsdo.py)
    path_files,        \* the documents path.rglob('*.xml') yields, in order
    gf_pc,             \* "idle" | "call" | "done"
    gf_result,         \* what get_features gave: Ok(feature_list) or Raise(e)
    \* the reducers (utils.py)
    poem_features,     \* the canonical poem record handed to a reducer
    rd_pc,             \* "idle" | "call" | the reducer called: "stanza" |
                       \* "line" | "word" | "syllable"
    rows,              \* what the reducer gave: Ok(rows) or Raise(e)
    \* get_corpora (core.py)
    corpus_indices,    \* argument: NoneArg or ListArg(<<ids>>)
    granularity,       \* argument: None or a granularity name
    pc,                \* "idle" | "call" | "loop" | "finally" | "done"
    idx,               \* number of loop iterations of core.py:26 completed
    corpora_features,  \* the list get_corpora collects
    features,          \* the list the last reader call returned
    log,               \* the messages given to logging.error, in order
    fetched,           \* the identifiers download_corpora got through
    read,              \* the identifiers whose reader was called, in order
    failure,           \* what interrupted the call: "none" or its cause
    pending,           \* the exception in flight on the way to finally
    ret                \* Pending, Ok(list) or Raise(e): what the caller gets

readerVars == <<path_files, gf_pc, gf_result>>
reducerVars == <<poem_features, rd_pc, rows>>
corporaVars == <<corpus_indices, granularity, pc, idx, corpora_features,
                 features, log, fetched, read, failure, pending, ret>>
vars == <<readerVars, reducerVars, corporaVars>>

----------------------------------------------------------------------------
(* Results of calls, Python's None, list indexing and string helpers.      *)

Ok(v) == [ok |-> TRUE, value |-> v]
Raise(e) == [ok |-> FALSE, exc |-> e]
Pending == [ok |-> FALSE, exc |-> "pending"]

\* Python's None, for the granularity argument (no granularity has this name).
None == "<None>"

\* the corpus_indices argument: None or a list of identifiers
NoneArg == [given |-> FALSE]
ListArg(list) == [given |-> TRUE, list |-> list]

\* list[i] for a Python int i: negative indices count from the end.
PyIndex(list, i) ==
    IF i >= 0 /\ i < Len(list) THEN Ok(list[i + 1])
    ELSE IF i < 0 /\ i >= 0 - Len(list) THEN Ok(list[Len(list) + i + 1])
    ELSE Raise("IndexError")

Last(s) == s[Len(s)]

RECURSIVE Concat(_)
\* "".join(parts)
Concat(parts) ==
    IF parts = <<>> THEN <<>> ELSE Head(parts) \o Concat(Tail(parts))

RECURSIVE Join(_, _)
\* sep.join(items), items being atomic texts
Join(items, sep) ==
    IF Len(items) <= 1 THEN items
    ELSE <<Head(items), sep>> \o Join(Tail(items), sep)

Digits == <<"0", "1", "2", "3", "4", "5", "6", "7", "8", "9">>
DigitChars == {Digits[i] : i \in 1..10}
DigitValue(c) == (CHOOSE i \in 1..10 : Digits[i] = c) - 1

RECURSIVE Str(_)
\* str(n) for n >= 0
Str(n) ==
    IF n < 10 THEN <<Digits[n + 1]>>
    ELSE Str(n \div 10) \o <<Digits[(n % 10) + 1]>>

RECURSIVE DigitsValue(_)
DigitsValue(s) ==
    IF s = <<>> THEN 0
    ELSE 10 * DigitsValue(SubSeq(s, 1, Len(s) - 1)) + DigitValue(Last(s))

\* int(s) for the texts the model draws (digits and letters): a non-empty
\* run of digits is its value, anything else is a ValueError.
PyInt(s) ==
    IF s # <<>> /\ \A i \in 1..Len(s) : s[i] \in DigitChars
    THEN Ok(DigitsValue(s))
    ELSE Raise("ValueError")

\* sub in s, for strings as character sequences
Contains(sub, s) ==
    \E i \in 0..(Len(s) - Len(sub)) : SubSeq(s, i + 1, i + Len(sub)) = sub

\* index of the first element of a sequence of results that raised, 0 if none
FirstRaise(rs) ==
    IF \E i \in 1..Len(rs) : ~rs[i].ok
    THEN CHOOSE i \in 1..Len(rs) : ~rs[i].ok /\ \A j \in 1..(i - 1) : rs[j].ok
    ELSE 0

Values(rs) == [i \in 1..Len(rs) |-> rs[i].value]

----------------------------------------------------------------------------
(* readers/plsdo.py: parse_xml and get_features.                           *)
(*                                                                         *)
(* A document is [metDecl, title, author, lg]; a field that root.find does *)
(* not find is outside DOMAIN.  A line-group is [attrib, lines], a line is *)
(* [attrib, text, words]: attrib is the element's attribute dict, text the *)
(* text of the line's first child, words the texts of its <w> elements.    *)

\* s.replace("|", "")
RemovePipes(s) == SelectSeq(s, LAMBDA c : c # "|")

RECURSIVE SubDigitRuns(_)
\* re.sub(r"[0-9]+", "+", s)
SubDigitRuns(s) ==
    IF s = <<>> THEN <<>>
    ELSE IF Head(s) \in DigitChars
         THEN IF Len(s) > 1 /\ s[2] \in DigitChars
              THEN SubDigitRuns(Tail(s))
              ELSE <<"+">> \o SubDigitRuns(Tail(s))
         ELSE <<Head(s)>> \o SubDigitRuns(Tail(s))

\* plsdo.py:41-42: the pipes go first, then the digit runs
MetricalPattern(met) == SubDigitRuns(RemovePipes(met))

Vowels == {"a", "e", "i", "o", "u", "á", "é", "í", "ó", "ú"}

RECURSIVE Split(_)
\* text.split("|")
Split(text) ==
    IF \A i \in 1..Len(text) : text[i] # "|" THEN <<text>>
    ELSE LET k == CHOOSE i \in 1..Len(text) :
                     text[i] = "|" /\ \A j \in 1..(i - 1) : text[j] # "|"
         IN <<SubSeq(text, 1, k - 1)>> \o Split(SubSeq(text, k + 1, Len(text)))

\* [*filter(bool, text.split("|"))]
Syllables(text) == SelectSeq(Split(text), LAMBDA part : part # <<>>)

\* plsdo.py:49-51: re.match on word.text[-1], the raw text of the element
HasSynalepha(text) == Last(text) \in Vowels

\* plsdo.py:47-59: one <w> element.  An element without text has text None,
\* and None[-1] is a TypeError.
ParseWord(text) ==
    IF text = <<>> THEN Raise("TypeError")
    ELSE LET word_dict == [word_text |-> Concat(Syllables(text)),
                           syllables |-> Syllables(text)]
         IN Ok(IF HasSynalepha(text)
               THEN [word_text |-> word_dict.word_text,
                     syllables |-> word_dict.syllables,
                     has_synalepha |-> TRUE]
               ELSE word_dict)

\* plsdo.py:38-65: one line element
ParseLine(line) ==
    IF "met" \notin DOMAIN line.attrib THEN Raise("KeyError")
    ELSE LET word_list == [i \in 1..Len(line.words) |-> ParseWord(line.words[i])]
             bad == FirstRaise(word_list)
         IN IF bad # 0 THEN word_list[bad]
            ELSE IF "n" \notin DOMAIN line.attrib THEN Raise("KeyError")
            ELSE Ok([line_number |-> line.attrib["n"],
                     line_text |-> line.text,
                     metrical_pattern |-> MetricalPattern(line.attrib["met"]),
                     words |-> Values(word_list)])

StanzaNumberFromZero(stanza_number) == Str(stanza_number)
\* plsdo.py:67: str(stanza_number + 1), stanza_number counted from 0
StanzaNumber(stanza_number) == Str(stanza_number + 1)

\* plsdo.py:34-70: one line-group, the stanza_number-th (from 0) of the document
ParseLineGroup(stanza_number, line_group) ==
    IF "type" \notin DOMAIN line_group.attrib THEN Raise("KeyError")
    ELSE LET line_list == [i \in 1..Len(line_group.lines) |->
                              ParseLine(line_group.lines[i])]
             bad == FirstRaise(line_list)
         IN IF bad # 0 THEN line_list[bad]
            ELSE Ok([stanza_number |-> StanzaNumber(stanza_number),
                     stanza_type |-> line_group.attrib["type"],
                     lines |-> Values(line_list),
                     stanza_text |->
                         Join([i \in 1..Len(line_group.lines) |->
                                  line_group.lines[i].text], "\n")])

Manual == <<"m", "a", "n", "u", "a", "l">>

\* plsdo.py:13-77
ParseXml(doc) ==
    IF "metDecl" \notin DOMAIN doc THEN Raise("AttributeError")
    ELSE IF "title" \notin DOMAIN doc THEN Raise("AttributeError")
    ELSE IF "author" \notin DOMAIN doc THEN Raise("AttributeError")
    ELSE LET stanza_list == [i \in 1..Len(doc.lg) |->
                                ParseLineGroup(i - 1, doc.lg[i])]
             bad == FirstRaise(stanza_list)
         IN IF bad # 0 THEN stanza_list[bad]
            ELSE Ok([poem_title |-> doc.title,
                     author |-> doc.author,
                     manually_checked |-> Contains(Manual, doc.metDecl),
                     stanzas |-> Values(stanza_list)])

RECURSIVE GetFeatures(_)
\* plsdo.py:80-90: an exception of parse_xml leaves the loop and the function
GetFeatures(files) ==
    IF files = <<>> THEN Ok(<<>>)
    ELSE LET result == ParseXml(Head(files))
         IN IF ~result.ok THEN result
            ELSE LET rest == GetFeatures(Tail(files))
                 IN IF rest.ok THEN Ok(<<result.value>> \o rest.value)
                    ELSE rest

----------------------------------------------------------------------------
(* utils.py: the granularity reducers.  dict.update and {**a, **b} are     *)
(* Merge: the keys of b win.                                               *)

Merge(a, b) ==
    [k \in (DOMAIN a) \cup (DOMAIN b) |-> IF k \in DOMAIN b THEN b[k] ELSE a[k]]

\* d after d.pop(key), for a key d has
Pop(d, key) == [k \in (DOMAIN d) \ {key} |-> d[k]]

StanzaRowTitleAsAuthor(poem, stanza_features) ==
    [stanza_number |-> stanza_features.stanza_number,
     manually_checked |-> poem.manually_checked,
     poem_title |-> poem.poem_title,
     author |-> poem.poem_title,
     stanza_text |-> stanza_features.stanza_text,
     stanza_type |-> stanza_features.stanza_type]
\* utils.py:123-130: dic_final
StanzaRow(poem, stanza_features) ==
    [stanza_number |-> stanza_features.stanza_number,
     manually_checked |-> poem.manually_checked,
     poem_title |-> poem.poem_title,
     author |-> poem.author,
     stanza_text |-> stanza_features.stanza_text,
     stanza_type |-> stanza_features.stanza_type]

\* utils.py:112-132
GetStanzaFeatures(poem) ==
    [i \in 1..Len(poem.stanzas) |-> StanzaRow(poem, poem.stanzas[i])]

\* utils.py:148-155: the row of one line under the stanza row `stanza`
LineRow(line, stanza) ==
    LET line_features ==
            IF "words" \notin DOMAIN line \/ line.words = <<>>
            THEN line
            ELSE [line_number |-> line.line_number,
                  line_text |-> line.line_text,
                  metrical_pattern |-> line.metrical_pattern]
    IN Merge(line_features, stanza)

\* utils.py:135-156
GetLineFeatures(poem) ==
    LET stanza_features == GetStanzaFeatures(poem)
    IN Concat([s \in 1..Len(stanza_features) |->
                  [l \in 1..Len(poem.stanzas[s].lines) |->
                      LineRow(poem.stanzas[s].lines[l], stanza_features[s])]])

\* the lines of a poem in document order
PoemLines(poem) ==
    Concat([s \in 1..Len(poem.stanzas) |-> poem.stanzas[s].lines])

\* utils.py:172-178: the word rows of one line; int() is evaluated for
\* every line, the lookup only for a line that has words
WordRowsOfLine(line, all_lines_features) ==
    LET line_number == PyInt(line.line_number)
    IN IF ~line_number.ok THEN line_number
       ELSE LET line_features == PyIndex(all_lines_features, line_number.value - 1)
            IN IF line.words = <<>> THEN Ok(<<>>)
               ELSE IF ~line_features.ok THEN line_features
               ELSE Ok([w \in 1..Len(line.words) |->
                          Pop(Merge([word_text |-> line.words[w].word_text],
                                    line_features.value),
                              "stanza_text")])

\* utils.py:159-179
GetWordFeatures(poem) ==
    LET all_lines_features == GetLineFeatures(poem)
        lines == PoemLines(poem)
        per_line == [i \in 1..Len(lines) |->
                        WordRowsOfLine(lines[i], all_lines_features)]
        bad == FirstRaise(per_line)
    IN IF bad # 0 THEN per_line[bad] ELSE Ok(Concat(Values(per_line)))

\* utils.py:198-208: the syllable rows of the word_number-th word (from 0)
SyllableRowsOfWord(word, line_number, word_number, all_words_features) ==
    [y \in 1..Len(word.syllables) |->
        Merge([syllable |-> word.syllables[y], line_number |-> line_number],
              all_words_features[word_number + 1])]

\* utils.py:182-209
GetSyllableFeatures(poem) ==
    LET all_words_features == GetWordFeatures(poem)
        lines == PoemLines(poem)
        words == Concat([i \in 1..Len(lines) |->
                            [w \in 1..Len(lines[i].words) |->
                                [word |-> lines[i].words[w],
                                 line_number |-> PyInt(lines[i].line_number)]]])
    IN IF ~all_words_features.ok THEN all_words_features
       ELSE Ok(Concat([k \in 1..Len(words) |->
                         SyllableRowsOfWord(words[k].word,
                                            words[k].line_number.value, k - 1,
                                            all_words_features.value)]))

----------------------------------------------------------------------------
(* utils.py and core.py: the registry, download_corpora, filter_features   *)
(* and the pieces of get_corpora.                                          *)

\* utils.py:12-13: the registry is a list read from corpora.yaml; here two
\* corpora, the first supporting the stanza granularity alone
CORPORA_SOURCES ==
    << [name |-> "testing",
        properties |-> [granularity |-> <<"stanza">>,
                        folder_name |-> "averell"]],
       [name |-> "testing2",
        properties |-> [granularity |-> <<"stanza", "line", "word", "syllable">>,
                        folder_name |-> "not-folder"]] >>

Elements(list) == {list[i] : i \in 1..Len(list)}

IndexErrorMessage == <<"Index number not in corpora list">>
NoCorpusMessage == <<"No corpus selected. Nothing will be downloaded">>
GranularityMessage(granularity_name, corpus_name) ==
    <<"'", granularity_name, "' granularity not found on '", corpus_name,
      "' properties">>

RECURSIVE DownloadEach(_, _)
\* utils.py:91-106: the loop over the identifiers; fail_at is the place in
\* the list where download_corpus or uncompress_corpus raises, 0 for nowhere
DownloadEach(indices, fail_at) ==
    IF indices = <<>> THEN [fetched |-> <<>>, log |-> <<>>, exc |-> "none"]
    ELSE IF ~PyIndex(CORPORA_SOURCES, Head(indices)).ok
    THEN [fetched |-> <<>>, log |-> <<IndexErrorMessage>>, exc |-> "none"]
    ELSE IF fail_at = 1
    THEN [fetched |-> <<>>, log |-> <<>>, exc |-> "URLError"]
    ELSE LET rest == DownloadEach(Tail(indices), fail_at - 1)
         IN [fetched |-> <<Head(indices)>> \o rest.fetched,
             log |-> rest.log, exc |-> rest.exc]

\* utils.py:79-109: a None or empty argument downloads nothing
DownloadCorpora(indices, fail_at) ==
    IF ~indices.given \/ indices.list = <<>>
    THEN [fetched |-> <<>>, log |-> <<NoCorpusMessage>>, exc |-> "none"]
    ELSE DownloadEach(indices.list, fail_at)

\* utils.py:212-236
FilterFeatures(poem, corpus_index, granularity_name) ==
    LET granularities_list ==
            PyIndex(CORPORA_SOURCES, corpus_index).value.properties.granularity
    IN IF granularity_name \in Elements(granularities_list)
       THEN CASE granularity_name = "stanza" -> Ok(GetStanzaFeatures(poem))
              [] granularity_name = "line" -> Ok(GetLineFeatures(poem))
              [] granularity_name = "word" -> GetWordFeatures(poem)
              [] granularity_name = "syllable" -> GetSyllableFeatures(poem)
              [] OTHER -> Ok(<<>>)
       ELSE Ok(<<>>)

RECURSIVE CollectFiltered(_, _, _, _)
\* core.py:40-48: the rows of each poem, written and appended when there
\* are any, up to the first poem whose reduction or writing raises
CollectFiltered(poems, index, granularity_name, write_ok) ==
    IF poems = <<>> THEN [collected |-> <<>>, exc |-> "none"]
    ELSE LET filtered_features ==
                 FilterFeatures(Head(poems), index, granularity_name)
         IN IF ~filtered_features.ok
            THEN [collected |-> <<>>, exc |-> filtered_features.exc]
            ELSE IF filtered_features.value = <<>>
            THEN CollectFiltered(Tail(poems), index, granularity_name, write_ok)
            ELSE IF ~write_ok THEN [collected |-> <<>>, exc |-> "OSError"]
            ELSE LET rest == CollectFiltered(Tail(poems), index,
                                             granularity_name, write_ok)
                 IN [collected |-> <<filtered_features.value>> \o rest.collected,
                     exc |-> rest.exc]

GranularityNotFoundSilent(messages, granularity_name, index) == messages
\* core.py:50-51
GranularityNotFound(messages, granularity_name, index) ==
    Append(messages,
           GranularityMessage(granularity_name,
                              PyIndex(CORPORA_SOURCES, index).value.name))

\* core.py:36-53: what one iteration does with the features it read:
\* the rows it adds to corpora_features, the log, the exception raised
Gather(collected_so_far, messages, poems, index, granularity_name, write_ok) ==
    IF granularity_name # None
    THEN IF granularity_name \in
              Elements(PyIndex(CORPORA_SOURCES, index).value.properties.granularity)
         THEN LET got == CollectFiltered(poems, index, granularity_name, write_ok)
              IN [corpora_features |-> collected_so_far \o got.collected,
                  log |-> messages, exc |-> got.exc]
         ELSE [corpora_features |-> collected_so_far,
               log |-> GranularityNotFound(messages, granularity_name, index),
               exc |-> "none"]
    ELSE [corpora_features |-> Append(collected_so_far, poems),
          log |-> messages, exc |-> "none"]

\* core.py:54-55: the except clause takes an IndexError and logs it
AfterExcept(exc) == IF exc = "IndexError" THEN "none" ELSE exc
LogAfterExcept(messages, exc) ==
    IF exc = "IndexError" THEN Append(messages, IndexErrorMessage) ELSE messages

FinallyReraise(exc, collected) ==
    IF exc = "none" THEN Ok(collected) ELSE Raise(exc)
\* core.py:56-57: the return in the finally clause drops an exception in flight
FinallyReturn(exc, collected) == Ok(collected)

----------------------------------------------------------------------------
(* The documents the reader is run on.                                     *)

MaxLen == 3        \* longest metrical attribute and longest word text
MaxLg == 2         \* most line-groups in a document
MaxFiles == 2      \* most documents in a corpus directory

StringsUpTo(chars, n) == UNION {[1..k -> chars] : k \in 0..n}

MetChars == {"1", "2", "|", "+", "-"}
WordChars == {"a", "á", "s", "|"}

Line(met, n, words) ==
    [attrib |-> [met |-> met, n |-> n], text |-> "verso", words |-> words]

LineGroup(lines) == [attrib |-> [type |-> "cuarteto"], lines |-> lines]

Document(lg) ==
    [metDecl |-> <<"m", "a", "n", "u", "a", "l">>,
     title |-> "Soneto", author |-> "Garcilaso", lg |-> lg]

\* one document per metrical attribute, and one per word text
MetDocuments ==
    {Document(<<LineGroup(<<Line(met, <<"1">>, <<>>)>>)>>) :
        met \in StringsUpTo(MetChars, MaxLen)}
WordDocuments ==
    {Document(<<LineGroup(<<Line(<<"+", "-">>, <<"1">>, <<text>>)>>)>>) :
        text \in StringsUpTo(WordChars, MaxLen)}

\* A document of n line-groups, the k-th holding k lines numbered on from
\* the lines before it; its description names manual review iff n is odd.
NthLineGroup(k) ==
    [attrib |-> [type |-> IF k % 2 = 1 THEN "cuarteto" ELSE "terceto"],
     lines |-> [l \in 1..k |->
                  [attrib |-> [met |-> <<"2", "|", "3">>,
                               n |-> Str(((k * (k - 1)) \div 2) + l)],
                   text |-> IF l % 2 = 1 THEN "verso" ELSE "otro",
                   words |-> << <<"r", "o", "|", "s", "a">> >>]]]

WholeDocument(n) ==
    [metDecl |-> IF n % 2 = 1 THEN <<"m", "a", "n", "u", "a", "l">>
                 ELSE <<"a", "u", "t", "o">>,
     title |-> "Soneto", author |-> "Garcilaso",
     lg |-> [k \in 1..n |-> NthLineGroup(k)]]

Defects == {"none", "title", "author", "metDecl", "type", "met", "n"}

Without(f, key) == [k \in (DOMAIN f) \ {key} |-> f[k]]

\* doc without the named field; an attribute goes from the last line-group
\* ("type") or from its last line ("met", "n")
Lacking(doc, defect) ==
    LET n == Len(doc.lg)
    IN CASE defect = "none" -> doc
         [] defect \in {"title", "author", "metDecl"} -> Without(doc, defect)
         [] defect = "type" /\ n > 0 ->
                [doc EXCEPT !.lg[n].attrib = Without(@, "type")]
         [] defect \in {"met", "n"} /\ n > 0 ->
                [doc EXCEPT !.lg[n].lines[n].attrib = Without(@, defect)]
         [] OTHER -> doc

BatchDocuments ==
    {Lacking(WholeDocument(n), defect) : n \in 0..MaxLg, defect \in Defects}

Directories ==
    {<<doc>> : doc \in MetDocuments \cup WordDocuments}
    \cup UNION {[1..k -> BatchDocuments] : k \in 0..MaxFiles}

----------------------------------------------------------------------------
(* The poem records the reducers are run on: what parse_xml makes of a     *)
(* document.  A shape is a sequence of stanzas, a stanza a sequence of     *)
(* lines [n, words], a word a sequence of syllables; its size counts its   *)
(* stanzas, lines, words and syllables.                                    *)

MaxSize == 5       \* largest shape of a poem handed to a reducer

LineNumberTexts == {<<"0">>, <<"1">>, <<"2">>, <<"3">>, <<"x">>}
SyllableTexts == {<<"s", "o">>, <<"l">>}

\* the shapes made of shape by one more stanza, line, word or syllable at
\* its end
Extend(shape) ==
    LET S == Len(shape)
        L == IF S > 0 THEN Len(shape[S]) ELSE 0
        W == IF L > 0 THEN Len(shape[S][L].words) ELSE 0
    IN {Append(shape, <<>>)}
       \cup (IF S = 0 THEN {} ELSE
               {[shape EXCEPT ![S] = Append(@, [n |-> n, words |-> <<>>])] :
                   n \in LineNumberTexts})
       \cup (IF L = 0 THEN {} ELSE
               {[shape EXCEPT ![S][L].words = Append(@, <<>>)]})
       \cup (IF W = 0 THEN {} ELSE
               {[shape EXCEPT ![S][L].words[W] = Append(@, y)] :
                   y \in SyllableTexts})

ShapesOfSize[k \in 0..MaxSize] ==
    IF k = 0 THEN {<<>>} ELSE UNION {Extend(shape) : shape \in ShapesOfSize[k - 1]}

Shapes == UNION {ShapesOfSize[k] : k \in 0..MaxSize}

RECURSIVE JoinTexts(_, _)
\* sep.join(texts), texts being character sequences
JoinTexts(texts, sep) ==
    IF texts = <<>> THEN <<>>
    ELSE IF Len(texts) = 1 THEN Head(texts)
    ELSE Head(texts) \o sep \o JoinTexts(Tail(texts), sep)

Headers ==
    {[metDecl |-> <<"m", "a", "n", "u", "a", "l">>,
      title |-> "Soneto", author |-> "Garcilaso"],
     [metDecl |-> <<"a", "u", "t", "o">>,
      title |-> "Egloga", author |-> "Boscan"]}

\* the document of a shape: a syllabified word reads so|l, the lines of a
\* stanza alternate two texts and two metrical attributes
DocumentOf(shape, header) ==
    [metDecl |-> header.metDecl, title |-> header.title,
     author |-> header.author,
     lg |-> [s \in 1..Len(shape) |->
               [attrib |-> [type |-> IF s % 2 = 1 THEN "cuarteto" ELSE "terceto"],
                lines |-> [l \in 1..Len(shape[s]) |->
                    [attrib |-> [met |-> IF l % 2 = 1 THEN <<"2", "|", "3">>
                                         ELSE <<"-", "1", "2">>,
                                 n |-> shape[s][l].n],
                     text |-> IF l % 2 = 1 THEN "verso" ELSE "otro",
                     words |-> [w \in 1..Len(shape[s][l].words) |->
                                  IF shape[s][l].words[w] = <<>> THEN <<"|">>
                                  ELSE JoinTexts(shape[s][l].words[w], <<"|">>)]]]]]]

Poems ==
    {ParseXml(DocumentOf(shape, header)).value :
        shape \in Shapes, header \in Headers}

----------------------------------------------------------------------------
(* Variables a specification does not use keep these values.               *)

IdleReader ==
    /\ path_files = <<>>
    /\ gf_pc = "idle"
    /\ gf_result = Pending

IdleReducer ==
    /\ poem_features = <<>>
    /\ rd_pc = "idle"
    /\ rows = Pending

IdleCorpora ==
    /\ corpus_indices = NoneArg
    /\ granularity = None
    /\ pc = "idle"
    /\ idx = 0
    /\ corpora_features = <<>>
    /\ features = <<>>
    /\ log = <<>>
    /\ fetched = <<>>
    /\ read = <<>>
    /\ failure = "none"
    /\ pending = "none"
    /\ ret = Pending

----------------------------------------------------------------------------
(* SpecReader: get_features over one directory, then get_stanza_features   *)
(* over a poem it returned.                                                *)

InitReader ==
    /\ path_files \in Directories
    /\ gf_pc = "call"
    /\ gf_result = Pending
    /\ IdleReducer
    /\ IdleCorpora

CallGetFeatures ==
    /\ gf_pc = "call"
    /\ gf_pc' = "done"
    /\ gf_result' = GetFeatures(path_files)
    /\ UNCHANGED <<path_files, reducerVars, corporaVars>>

StanzasOfRead ==
    /\ gf_pc = "done"
    /\ gf_result.ok
    /\ rd_pc = "idle"
    /\ \E i \in 1..Len(gf_result.value) :
          /\ poem_features' = gf_result.value[i]
          /\ rows' = Ok(GetStanzaFeatures(gf_result.value[i]))
    /\ rd_pc' = "stanza"
    /\ UNCHANGED <<readerVars, corporaVars>>

NextReader == CallGetFeatures \/ StanzasOfRead

SpecReader == InitReader /\ [][NextReader]_vars

----------------------------------------------------------------------------
(* SpecReducer: one reducer call on one poem record.                       *)

InitReducer ==
    /\ poem_features \in Poems
    /\ rd_pc = "call"
    /\ rows = Pending
    /\ IdleReader
    /\ IdleCorpora

CallGetStanzaFeatures ==
    /\ rd_pc = "call"
    /\ rd_pc' = "stanza"
    /\ rows' = Ok(GetStanzaFeatures(poem_features))
    /\ UNCHANGED <<poem_features, readerVars, corporaVars>>

CallGetLineFeatures ==
    /\ rd_pc = "call"
    /\ rd_pc' = "line"
    /\ rows' = Ok(GetLineFeatures(poem_features))
    /\ UNCHANGED <<poem_features, readerVars, corporaVars>>

CallGetWordFeatures ==
    /\ rd_pc = "call"
    /\ rd_pc' = "word"
    /\ rows' = GetWordFeatures(poem_features)
    /\ UNCHANGED <<poem_features, readerVars, corporaVars>>

CallGetSyllableFeatures ==
    /\ rd_pc = "call"
    /\ rd_pc' = "syllable"
    /\ rows' = GetSyllableFeatures(poem_features)
    /\ UNCHANGED <<poem_features, readerVars, corporaVars>>

NextReducer ==
    \/ CallGetStanzaFeatures
    \/ CallGetLineFeatures
    \/ CallGetWordFeatures
    \/ CallGetSyllableFeatures

SpecReducer == InitReducer /\ [][NextReducer]_vars

----------------------------------------------------------------------------
(* Spec: one call of get_corpora.  What the network, the corpus folder and *)
(* the disk do is chosen in the step that meets them.                      *)

MaxIndices == 2    \* longest list of identifiers
Unregistered == 500000

Identifiers == {0, 1, Unregistered}
GranularityNames == {None, "stanza", "line", "word", "syllable", "kfajdgah"}

\* the folders a corpus may unpack to: empty, one sound poem, a sound poem
\* and one whose only line is numbered 2, a poem whose line is numbered x,
\* a sound document and one without author
CorpusFolders ==
    { <<>>,
      <<WholeDocument(2)>>,
      <<WholeDocument(1),
        DocumentOf(<< <<[n |-> <<"2">>, words |-> << << <<"l">> >> >>]>> >>,
                   [metDecl |-> <<"a", "u", "t", "o">>,
                    title |-> "Egloga", author |-> "Boscan"])>>,
      <<DocumentOf(<< <<[n |-> <<"x">>, words |-> << << <<"l">> >> >>]>> >>,
                   [metDecl |-> <<"a", "u", "t", "o">>,
                    title |-> "Egloga", author |-> "Boscan"])>>,
      <<WholeDocument(1), Lacking(WholeDocument(1), "author")>> }

Init ==
    /\ corpus_indices \in
          {NoneArg} \cup {ListArg(list) :
                            list \in UNION {[1..k -> Identifiers] : k \in 0..MaxIndices}}
    /\ granularity \in GranularityNames
    /\ pc = "call"
    /\ idx = 0
    /\ corpora_features = <<>>
    /\ features = <<>>
    /\ log = <<>>
    /\ fetched = <<>>
    /\ read = <<>>
    /\ failure = "none"
    /\ pending = "none"
    /\ ret = Pending
    /\ IdleReader
    /\ IdleReducer

\* core.py:25
Download ==
    /\ pc = "call"
    /\ \E fail_at \in 0..MaxIndices + 1 :
          LET got == DownloadCorpora(corpus_indices, fail_at)
          IN /\ fetched' = got.fetched
             /\ log' = log \o got.log
             /\ pending' = got.exc
             /\ failure' = IF got.exc = "none" THEN "none" ELSE "download"
             /\ pc' = IF got.exc = "none" THEN "loop" ELSE "finally"
    /\ UNCHANGED <<corpus_indices, granularity, idx, corpora_features, features,
                   read, ret, readerVars, reducerVars>>

\* core.py:26: iterating over None is a TypeError
LoopOverNone ==
    /\ pc = "loop"
    /\ ~corpus_indices.given
    /\ pc' = "finally"
    /\ pending' = "TypeError"
    /\ failure' = "none-argument"
    /\ UNCHANGED <<corpus_indices, granularity, idx, corpora_features, features,
                   log, fetched, read, ret, readerVars, reducerVars>>

\* core.py:36-53: the iteration once its rows are gathered
AfterGather(poems, after) ==
    [features |-> poems,
     corpora_features |-> after.corpora_features,
     log |-> after.log,
     exc |-> after.exc,
     failure |-> IF after.exc = "none" THEN "none"
                 ELSE IF after.exc = "OSError" THEN "write" ELSE "reducer"]

\* core.py:30-53: the iteration once the reader gave got; disk tells where
\* write_json fails: on the poem files ("poems"), on the row files ("rows")
AfterRead(collected_so_far, messages, index, granularity_name, got, disk) ==
    IF ~got.ok
    THEN [features |-> <<>>, corpora_features |-> collected_so_far,
          log |-> messages, exc |-> got.exc, failure |-> "reader"]
    ELSE IF got.value # <<>> /\ disk = "poems"
    THEN [features |-> got.value, corpora_features |-> collected_so_far,
          log |-> messages, exc |-> "OSError", failure |-> "write"]
    ELSE AfterGather(got.value,
                     Gather(collected_so_far, messages, got.value, index,
                            granularity_name, disk # "rows"))

\* core.py:27-53: the body of the loop for a registered index whose corpus
\* unpacked to folder
Iteration(collected_so_far, messages, index, granularity_name, folder, disk) ==
    AfterRead(collected_so_far, messages, index, granularity_name,
              GetFeatures(folder), disk)

\* core.py:26-55: one iteration of the loop, with the except clause when it
\* raises
ProcessCorpus ==
    /\ pc = "loop"
    /\ corpus_indices.given
    /\ idx < Len(corpus_indices.list)
    /\ \E index \in {corpus_indices.list[idx + 1]} :
          IF ~PyIndex(CORPORA_SOURCES, index).ok
          THEN /\ pc' = "finally"
               /\ failure' = "unregistered"
               /\ pending' = AfterExcept("IndexError")
               /\ log' = LogAfterExcept(log, "IndexError")
               /\ UNCHANGED <<idx, corpora_features, features, read>>
          ELSE \E folder \in CorpusFolders, disk \in {"ok", "poems", "rows"} :
                 \E step \in {Iteration(corpora_features, log, index, granularity,
                                          folder, disk)} :
                    /\ read' = Append(read, index)
                    /\ features' = IF step.failure = "reader" THEN features
                                   ELSE step.features
                    /\ corpora_features' = step.corpora_features
                    /\ failure' = step.failure
                    /\ pending' = AfterExcept(step.exc)
                    /\ log' = LogAfterExcept(step.log, step.exc)
                    /\ idx' = IF step.exc = "none" THEN idx + 1 ELSE idx
                    /\ pc' = IF step.exc = "none" THEN "loop" ELSE "finally"
    /\ UNCHANGED <<corpus_indices, granularity, fetched, ret,
                   readerVars, reducerVars>>

\* core.py:26: the list is exhausted
LoopEnds ==
    /\ pc = "loop"
    /\ corpus_indices.given
    /\ idx = Len(corpus_indices.list)
    /\ pc' = "finally"
    /\ UNCHANGED <<corpus_indices, granularity, idx, corpora_features, features,
                   log, fetched, read, failure, pending, ret,
                   readerVars, reducerVars>>

\* core.py:56-57
Finally ==
    /\ pc = "finally"
    /\ pc' = "done"
    /\ ret' = FinallyReturn(pending, corpora_features)
    /\ pending' = "none"
    /\ UNCHANGED <<corpus_indices, granularity, idx, corpora_features, features,
                   log, fetched, read, failure, readerVars, reducerVars>>

Next == Download \/ LoopOverNone \/ ProcessCorpus \/ LoopEnds \/ Finally

Spec == Init /\ [][Next]_vars

----------------------------------------------------------------------------
(* Claims about the reader, checked under SpecReader.                      *)

\* When get_features returned, the i-th poem is the i-th document's: the
\* line elements of the directory paired with the line records made of them.
ReadLines ==
    IF gf_pc = "done" /\ gf_result.ok
    THEN {[element |-> path_files[i].lg[s].lines[l],
           record |-> gf_result.value[i].stanzas[s].lines[l]] :
            <<i, s, l>> \in
              {t \in (1..Len(path_files)) \X (1..MaxLg + 1) \X (1..MaxLg + 1) :
                  /\ t[2] <= Len(path_files[t[1]].lg)
                  /\ t[3] <= Len(path_files[t[1]].lg[t[2]].lines)}}
    ELSE {}

\* the pattern with every digit run replaced by "+", a run ending at a pipe
\* as at any other character, and the pipes deleted
DigitRunsThenPipes(met) == RemovePipes(SubDigitRuns(met))

\* C4: the metrical_pattern of every line read is its met attribute with
\* each maximal digit run of the attribute (a pipe ends a run) replaced by
\* one "+" and the pipes deleted, so that "2|3" gives "++".
C4_PatternKeepsRunsApart ==
    \A p \in ReadLines :
        p.record.metrical_pattern = DigitRunsThenPipes(p.element.attrib["met"])

\* C5: a word record has has_synalepha (TRUE) iff the last character of its
\* word_text is one of the ten vowels, whatever the raw text was.
C5_SynalephaOfJoinedText ==
    \A p \in ReadLines :
        \A w \in 1..Len(p.record.words) :
            LET word == p.record.words[w]
            IN ("has_synalepha" \in DOMAIN word /\ word["has_synalepha"] = TRUE)
               <=> (word.word_text # <<>> /\ Last(word.word_text) \in Vowels)

RECURSIVE WellFormedPoems(_)
\* the poem records of the documents parse_xml accepts, in order
WellFormedPoems(files) ==
    IF files = <<>> THEN <<>>
    ELSE LET result == ParseXml(Head(files))
         IN (IF result.ok THEN <<result.value>> ELSE <<>>)
            \o WellFormedPoems(Tail(files))

\* a document without title, author or metrical declaration, or with a line
\* without met or n
LacksRequiredField(doc) ==
    \/ {"title", "author", "metDecl"} \ DOMAIN doc # {}
    \/ \E s \in 1..Len(doc.lg) : \E l \in 1..Len(doc.lg[s].lines) :
          {"met", "n"} \ DOMAIN doc.lg[s].lines[l].attrib # {}

\* C8: over a directory where one document lacks a required field and the
\* other documents are well formed, get_features returns one poem record for
\* every well-formed document and none for the malformed one.
C8_SiblingsSurvive ==
    (/\ gf_pc = "done"
     /\ Len(path_files) >= 2
     /\ \E i \in 1..Len(path_files) :
           /\ LacksRequiredField(path_files[i])
           /\ \A j \in (1..Len(path_files)) \ {i} : ParseXml(path_files[j]).ok)
    => gf_result = Ok(WellFormedPoems(path_files))

\* the decimal numerals "1", "2", ... as texts
Numeral ==
    << <<"1">>, <<"2">>, <<"3">>, <<"4">>, <<"5">>, <<"6">>, <<"7">>, <<"8">>,
       <<"9">>, <<"1", "0">>, <<"1", "1">>, <<"1", "2">> >>

\* C9: a document of N line-groups that the reader parses gives N stanzas
\* numbered "1".."N" in document order, and get_stanza_features gives N rows
\* numbered the same, each with the text and type of the stanza at its place.
C9_StanzasNumberedInOrder ==
    /\ (gf_pc = "done" /\ gf_result.ok) =>
          \A i \in 1..Len(path_files) :
              LET stanzas == gf_result.value[i].stanzas
              IN /\ Len(stanzas) = Len(path_files[i].lg)
                 /\ \A k \in 1..Len(stanzas) :
                        stanzas[k].stanza_number = Numeral[k]
    /\ rd_pc = "stanza" =>
          /\ rows.ok
          /\ Len(rows.value) = Len(poem_features.stanzas)
          /\ \A k \in 1..Len(rows.value) :
                /\ rows.value[k].stanza_number = Numeral[k]
                /\ rows.value[k].stanza_text = poem_features.stanzas[k].stanza_text
                /\ rows.value[k].stanza_type = poem_features.stanzas[k].stanza_type

C9_Witness ==
    /\ rd_pc = "stanza"
    /\ Len(rows.value) = MaxLg
    /\ rows.value[1].stanza_type # rows.value[2].stanza_type

----------------------------------------------------------------------------
(* Claims about the reducers, checked under SpecReducer.                   *)

\* the words of a poem in document order, each with its line and stanza
PoemWords(poem) ==
    Concat([s \in 1..Len(poem.stanzas) |->
        Concat([l \in 1..Len(poem.stanzas[s].lines) |->
            [w \in 1..Len(poem.stanzas[s].lines[l].words) |->
                [word |-> poem.stanzas[s].lines[l].words[w],
                 line |-> poem.stanzas[s].lines[l],
                 stanza |-> poem.stanzas[s]]]])])

\* the syllables of a poem in document order, each with its word and line
PoemSyllables(poem) ==
    LET words == PoemWords(poem)
    IN Concat([k \in 1..Len(words) |->
          [y \in 1..Len(words[k].word.syllables) |->
              [syllable |-> words[k].word.syllables[y],
               word |-> words[k].word,
               line |-> words[k].line]]])

\* the lines of every stanza are numbered by decimal numerals from 1 up,
\* each line above the one before it: the numbering may restart in a stanza
\* and may leave numbers out
NumberedUpwards(poem) ==
    \A s \in 1..Len(poem.stanzas) :
        LET lines == poem.stanzas[s].lines
        IN /\ \A l \in 1..Len(lines) :
                 /\ PyInt(lines[l].line_number).ok
                 /\ PyInt(lines[l].line_number).value >= 1
           /\ \A l \in 1..(Len(lines) - 1) :
                 PyInt(lines[l].line_number).value
                     < PyInt(lines[l + 1].line_number).value

\* C6: every row a reducer returns carries the author, poem_title and
\* manually_checked of the poem it was derived from, the rows of lines
\* without words included.
C6_RowsCarryPoemContext ==
    (rd_pc \in {"stanza", "line", "word", "syllable"} /\ rows.ok) =>
        \A k \in 1..Len(rows.value) :
            /\ rows.value[k].author = poem_features.author
            /\ rows.value[k].poem_title = poem_features.poem_title
            /\ rows.value[k].manually_checked = poem_features.manually_checked

\* line rows of a poem with a line without words and a line with a word
C6_Witness ==
    /\ rd_pc = "line"
    /\ rows.ok
    /\ \E k \in 1..Len(rows.value) : "words" \in DOMAIN rows.value[k]
    /\ \E k \in 1..Len(rows.value) : "words" \notin DOMAIN rows.value[k]
    /\ ~poem_features.manually_checked

\* C7: get_word_features returns one row per word in document order, the
\* row of a word carrying the line_number, line_text, metrical_pattern,
\* stanza_number and stanza_type of the line and stanza that hold the word
\* and no stanza_text, however the lines are numbered.
C7_WordsLinkedToTheirLine ==
    (rd_pc = "word" /\ NumberedUpwards(poem_features)) =>
        /\ rows.ok
        /\ Len(rows.value) = Len(PoemWords(poem_features))
        /\ \A k \in 1..Len(rows.value) :
              LET row == rows.value[k]
                  at == PoemWords(poem_features)[k]
              IN /\ row.word_text = at.word.word_text
                 /\ row.line_number = at.line.line_number
                 /\ row.line_text = at.line.line_text
                 /\ row.metrical_pattern = at.line.metrical_pattern
                 /\ row.stanza_number = at.stanza.stanza_number
                 /\ row.stanza_type = at.stanza.stanza_type
                 /\ "stanza_text" \notin DOMAIN row

\* C10: when get_syllable_features returns, it returns one row per syllable
\* in document order, each with the word_text of the word that holds the
\* syllable and the line_number, line_text and metrical_pattern of the line
\* that holds it, however the lines are numbered.
C10_SyllablesLinkedToTheirLine ==
    (rd_pc = "syllable" /\ rows.ok /\ NumberedUpwards(poem_features)) =>
        /\ Len(rows.value) = Len(PoemSyllables(poem_features))
        /\ \A k \in 1..Len(rows.value) :
              LET row == rows.value[k]
                  at == PoemSyllables(poem_features)[k]
              IN /\ row.syllable = at.syllable
                 /\ row.word_text = at.word.word_text
                 /\ row.line_number = at.line.line_number
                 /\ row.line_text = at.line.line_text
                 /\ row.metrical_pattern = at.line.metrical_pattern

----------------------------------------------------------------------------
(* Claims about get_corpora, checked under Spec.                           *)

Registered(index) == PyIndex(CORPORA_SOURCES, index).ok

Count(list, x) == Cardinality({i \in 1..Len(list) : list[i] = x})

\* C1: whatever the arguments and whatever fails inside, the caller of
\* get_corpora gets a list, never an exception: the entries collected up to
\* the failure.
C1_AlwaysReturnsTheList ==
    /\ pc = "done" => ret = Ok(corpora_features)
    /\ pc # "done" => ret = Pending

\* a reduction failed after the rows of an earlier poem were collected
C1_Witness ==
    /\ pc = "done"
    /\ failure = "reducer"
    /\ ret.ok
    /\ ret.value # <<>>

\* C2: with nothing failing but an unregistered identifier in the list, every
\* registered identifier of the list, before or after it, is downloaded and
\* read and, with no granularity asked, adds its features; an unregistered
\* identifier alone gives the empty list.
C2_UnknownIdentifierSkipped ==
    (pc = "done" /\ corpus_indices.given /\ failure \in {"none", "unregistered"}) =>
        LET registered == SelectSeq(corpus_indices.list, Registered)
        IN /\ fetched = registered
           /\ read = registered
           /\ ret.ok
           /\ granularity = None => Len(ret.value) = Len(registered)
           /\ registered = <<>> => ret.value = <<>>

UnsupportedBy(index, granularity_name) ==
    /\ Registered(index)
    /\ granularity_name # None
    /\ granularity_name \notin
          Elements(PyIndex(CORPORA_SOURCES, index).value.properties.granularity)

\* the loop is at a registered corpus that does not support the granularity
AtUnsupportedCorpus ==
    /\ pc = "loop"
    /\ corpus_indices.given
    /\ idx < Len(corpus_indices.list)
    /\ UnsupportedBy(corpus_indices.list[idx + 1], granularity)

====
